---- MODULE Spec2Model ----
(***************************************************************************)
(* Model of scripts/spellcheck-installer.py: one run of main().            *)
(*                                                                         *)
(* Strings are sequences of tokens.  Labels, dictionary names and the file *)
(* extension are sequences of single characters, so that str.replace,      *)
(* str.endswith and whitespace stripping are computed character by         *)
(* character.  Paths and URLs are sequences of coarser tokens in which     *)
(* "/" and "~" always stand alone.  The empty string is <<>>.              *)
(***************************************************************************)
EXTENDS Integers, Sequences, FiniteSets, TLC

\* ------------------------------------------------------------------ bounds
\* Largest number of anchors of a listing page.
MaxLinks == 2

\* ------------------------------------------------------- program constants
repo_url == <<"https://chromium.googlesource.com">>

file_ext == <<".", "b", "d", "i", "c">>

listing_url == repo_url \o <<"/chromium/deps/hunspell_dictionaries/+/master">>

\* Optional values: Python's None and a string.
None == [is_none |-> TRUE, str |-> <<>>]

Some(s) == [is_none |-> FALSE, str |-> s]

\* Python truthiness of an optional string: None and "" are falsy.
Truthy(v) == (~v.is_none) /\ v.str # <<>>

\* ------------------------------------------------------------ str helpers
EndsWith(s, suffix) ==
  /\ Len(s) >= Len(suffix)
  /\ SubSeq(s, Len(s) - Len(suffix) + 1, Len(s)) = suffix

MatchAt(s, i, old) ==
  /\ i + Len(old) - 1 <= Len(s)
  /\ SubSeq(s, i, i + Len(old) - 1) = old

\* str.replace(old, new) for a non-empty old: every non-overlapping
\* occurrence, scanning from the left.
RECURSIVE ReplaceFrom(_, _, _, _)
ReplaceFrom(s, i, old, new) ==
  IF i > Len(s) THEN <<>>
  ELSE IF MatchAt(s, i, old) THEN new \o ReplaceFrom(s, i + Len(old), old, new)
  ELSE <<s[i]>> \o ReplaceFrom(s, i + 1, old, new)

StrReplace(s, old, new) == ReplaceFrom(s, 1, old, new)

Whitespace == {" ", "\n", "\t"}

RECURSIVE LStrip(_)
LStrip(s) == IF s # <<>> /\ Head(s) \in Whitespace THEN LStrip(Tail(s)) ELSE s

RECURSIVE RStrip(_)
RStrip(s) ==
  IF s # <<>> /\ s[Len(s)] \in Whitespace THEN RStrip(SubSeq(s, 1, Len(s) - 1)) ELSE s

\* get_text(strip=True) of an anchor holding one text node.
GetTextStrip(text) == RStrip(LStrip(text))

\* --------------------------------------------------------- Listing Fetcher
ItemClass == "FileList-itemLink"

\* soup.find_all("a", class_="FileList-itemLink")
FindFileLinks(pg) == SelectSeq(pg, LAMBDA a : ItemClass \in a.class_)

\* The key the dict comprehension computes for a label.
LinkKey(link_text) == StrReplace(link_text, file_ext, <<>>)

\* The filter of the dict comprehension.
KeptLinks(pg) ==
  SelectSeq(FindFileLinks(pg), LAMBDA a : EndsWith(GetTextStrip(a.text), file_ext))

\* The dict comprehension: a later anchor with the same key overrides an
\* earlier one.
get_lang_file_links(pg) ==
  LET kept == KeptLinks(pg)
      keyOf(i) == LinkKey(GetTextStrip(kept[i].text))
      keys == {keyOf(i) : i \in 1..Len(kept)}
      last(k) == CHOOSE i \in 1..Len(kept) :
                   /\ keyOf(i) = k
                   /\ \A j \in 1..Len(kept) : keyOf(j) = k => j <= i
  IN [k \in keys |-> kept[last(k)].href]

\* ------------------------------------------------------------ os.path
Home == <<"/", "home/user">>

\* os.path.expanduser: a leading "~" followed by "/" or the end.
expanduser(p) ==
  IF p # <<>> /\ p[1] = "~" /\ (Len(p) = 1 \/ p[2] = "/") THEN Home \o Tail(p) ELSE p

\* os.path.join(a, b)
os_path_join(a, b) ==
  IF b # <<>> /\ b[1] = "/" THEN b
  ELSE IF a = <<>> \/ a[Len(a)] = "/" THEN a \o b
  ELSE a \o <<"/">> \o b

\* The directory a path names: trailing separators dropped.
RECURSIVE NormDir(_)
NormDir(p) == IF Len(p) > 1 /\ p[Len(p)] = "/" THEN NormDir(SubSeq(p, 1, Len(p) - 1)) ELSE p

os_install_dir == expanduser(<<"~", "/", ".config/chromium/Dictionaries", "/">>)

flatpak_install_dir ==
  expanduser(<<"~", "/",
    ".var/app/com.github.Eloston.UngoogledChromium/config/chromium/Dictionaries", "/">>)

\* ------------------------------------------------------------ base64
B64Alphabet ==
  << "A","B","C","D","E","F","G","H","I","J","K","L","M","N","O","P",
     "Q","R","S","T","U","V","W","X","Y","Z","a","b","c","d","e","f",
     "g","h","i","j","k","l","m","n","o","p","q","r","s","t","u","v",
     "w","x","y","z","0","1","2","3","4","5","6","7","8","9","+","/" >>

B64Value(c) == (CHOOSE i \in 1..Len(B64Alphabet) : B64Alphabet[i] = c) - 1

IsB64(c) == \E i \in 1..Len(B64Alphabet) : B64Alphabet[i] = c

\* binascii.a2b_base64 in its default (non strict) mode: characters outside
\* the alphabet are skipped, a complete run of padding ends the input, and
\* a quad left incomplete at the end is an error.
RECURSIVE B64Scan(_, _, _, _, _, _)
B64Scan(s, i, quad_pos, pads, leftchar, out) ==
  IF i > Len(s)
    THEN [ok |-> quad_pos = 0, bytes |-> out]
  ELSE IF s[i] = "="
    THEN IF quad_pos >= 2 /\ quad_pos + pads + 1 >= 4
           THEN [ok |-> TRUE, bytes |-> out]
           ELSE B64Scan(s, i + 1, quad_pos,
                        IF quad_pos >= 2 THEN pads + 1 ELSE pads, leftchar, out)
  ELSE IF ~IsB64(s[i])
    THEN B64Scan(s, i + 1, quad_pos, pads, leftchar, out)
  ELSE LET v == B64Value(s[i]) IN
    CASE quad_pos = 0 -> B64Scan(s, i + 1, 1, 0, v, out)
      [] quad_pos = 1 ->
           B64Scan(s, i + 1, 2, 0, v % 16, Append(out, leftchar * 4 + v \div 16))
      [] quad_pos = 2 ->
           B64Scan(s, i + 1, 3, 0, v % 4, Append(out, leftchar * 16 + v \div 4))
      [] OTHER ->
           B64Scan(s, i + 1, 0, 0, 0, Append(out, leftchar * 64 + v))

b64decode(s) == B64Scan(s, 1, 0, 0, 0, <<>>)

\* ------------------------------------------------------------ inputs
\* Anchors a listing page is made of.  The third label holds the extension
\* twice, the second is surrounded by whitespace, the fourth is no
\* dictionary file and the fifth anchor is not a file-list item.
Anchors ==
  { [class_ |-> {ItemClass}, text |-> <<"e","n">> \o file_ext,
     href |-> <<"/p/en.bdic">>],
    [class_ |-> {ItemClass}, text |-> <<" ","f","r">> \o file_ext \o <<"\n">>,
     href |-> <<"/p/fr.bdic">>],
    [class_ |-> {ItemClass}, text |-> <<"e","n">> \o file_ext \o file_ext,
     href |-> <<"/p/en.bdic.bdic">>],
    [class_ |-> {ItemClass}, text |-> <<"R","E","A","D","M","E">>,
     href |-> <<"/p/README">>],
    [class_ |-> {"Breadcrumbs-crumb"}, text |-> <<"z","z">> \o file_ext,
     href |-> <<"/p/zz.bdic">>] }

RECURSIVE SeqsUpTo(_, _)
SeqsUpTo(S, n) ==
  IF n = 0 THEN {<<>>}
  ELSE LET shorter == SeqsUpTo(S, n - 1)
       IN shorter \cup {Append(q, x) : q \in shorter, x \in S}

Pages == SeqsUpTo(Anchors, MaxLinks)

\* Dictionary names a caller may pass.
Names == { <<"e","n">>, <<"f","r">>, <<"z","z">> }

\* Custom directory arguments a caller may pass: the empty string and a
\* directory under the home directory.
CustomArgs == { <<>>, <<"~", "/", "dicts">> }

Script == <<"./spellcheck-installer.py">>

Argvs ==
  {<<Script>>}
    \cup {<<Script, n>> : n \in Names}
    \cup {<<Script, n, d>> : n \in Names, d \in CustomArgs}

\* Directories that may exist on the machine.
CandidateDirs ==
  { NormDir(os_install_dir), NormDir(flatpak_install_dir) }
    \cup { NormDir(expanduser(d)) : d \in CustomArgs \ {<<>>} }

\* Response bodies of the payload request: "AB", "A" with a line break
\* inside, and a body with incorrect padding.
Bodies ==
  { <<"Q","U","I","=">>, <<"Q","Q","\n","=","=">>, <<"Q","Q","=">> }

StatusCodes == {200, 404}

\* Outcomes of open(path, "wb") followed by f.write(...).
WriteResults == {"ok", "open_error", "write_error"}

\* ------------------------------------------------------------ state
VARIABLES
  argv,                      \* sys.argv
  page,                      \* anchors of the remote listing page
  existing,                  \* directories that exist
  files,                     \* file path -> content
  pc,                        \* position of main()
  error,                     \* uncaught exception, "none" if there is none
  links_dict,
  lang_code,
  custom_install_directory,
  lang_file_binary,
  lang_file_installed,
  os_install_exists,
  flatpak_install_exists,
  custom_directory_exists,
  requests,                  \* URLs passed to requests.get, in order
  checks,                    \* paths passed to os.path.exists, with the answer
  writes,                    \* install_lang_file calls, with the outcome
  output                     \* printed messages, in order

vars ==
  << argv, page, existing, files, pc, error, links_dict, lang_code,
     custom_install_directory, lang_file_binary, lang_file_installed,
     os_install_exists, flatpak_install_exists, custom_directory_exists,
     requests, checks, writes, output >>

env == << argv, page, existing >>

locals ==
  << links_dict, lang_code, custom_install_directory, lang_file_binary,
     lang_file_installed, os_install_exists, flatpak_install_exists,
     custom_directory_exists >>

Init ==
  /\ argv \in Argvs
  /\ page \in Pages
  /\ existing \in SUBSET CandidateDirs
  /\ files = <<>>
  /\ pc = "get_links"
  /\ error = "none"
  /\ links_dict = <<>>
  /\ lang_code = <<>>
  /\ custom_install_directory = None
  /\ lang_file_binary = <<>>
  /\ lang_file_installed = FALSE
  /\ os_install_exists = FALSE
  /\ flatpak_install_exists = FALSE
  /\ custom_directory_exists = FALSE
  /\ requests = <<>>
  /\ checks = <<>>
  /\ writes = <<>>
  /\ output = <<>>

\* os.path.exists
os_path_exists(p) == p # <<>> /\ NormDir(p) \in existing

\* ------------------------------------------------------------ main()
\* links_dict = get_lang_file_links()
GetLinks ==
  /\ pc = "get_links"
  /\ requests' = Append(requests, listing_url)
  /\ \E status_code \in StatusCodes :
       IF status_code # 200
         THEN /\ pc' = "aborted"
              /\ error' = "FailedToLoadListing"
              /\ links_dict' = links_dict
         ELSE /\ pc' = "args"
              /\ error' = error
              /\ links_dict' = get_lang_file_links(page)
  /\ UNCHANGED << env, files, lang_code, custom_install_directory,
                  lang_file_binary, lang_file_installed, os_install_exists,
                  flatpak_install_exists, custom_directory_exists, checks,
                  writes, output >>

\* print_available(links_dict)
print_available(out) == out \o <<"available_names", "example_usage">>

\* CheckArgs with an unknown name reported without the list of names.
CheckArgsSilentUnknown ==
  /\ pc = "args"
  /\ IF Len(argv) < 2
       THEN /\ output' = print_available(Append(output, "first_argument_hint"))
            /\ pc' = "done"
            /\ UNCHANGED << lang_code, custom_install_directory >>
     ELSE IF argv[2] \notin DOMAIN links_dict
       THEN /\ lang_code' = argv[2]
            /\ output' = Append(output, "unavailable_language")
            /\ pc' = "done"
            /\ UNCHANGED custom_install_directory
     ELSE /\ lang_code' = argv[2]
          /\ IF Len(argv) >= 3
               THEN /\ custom_install_directory' = Some(expanduser(argv[3]))
                    /\ output' = Append(output, "using_custom_directory")
               ELSE /\ custom_install_directory' = None
                    /\ output' = output
          /\ pc' = "download"
  /\ UNCHANGED << env, files, error, links_dict, lang_file_binary,
                  lang_file_installed, os_install_exists,
                  flatpak_install_exists, custom_directory_exists, requests,
                  checks, writes >>

\* The argument handling, up to the download.
CheckArgs ==
  /\ pc = "args"
  /\ IF Len(argv) < 2
       THEN /\ output' = print_available(Append(output, "first_argument_hint"))
            /\ pc' = "done"
            /\ UNCHANGED << lang_code, custom_install_directory >>
     ELSE IF argv[2] \notin DOMAIN links_dict
       THEN /\ lang_code' = argv[2]
            /\ output' = print_available(Append(output, "unavailable_language"))
            /\ pc' = "done"
            /\ UNCHANGED custom_install_directory
     ELSE /\ lang_code' = argv[2]
          /\ IF Len(argv) >= 3
               THEN /\ custom_install_directory' = Some(expanduser(argv[3]))
                    /\ output' = Append(output, "using_custom_directory")
               ELSE /\ custom_install_directory' = None
                    /\ output' = output
          /\ pc' = "download"
  /\ UNCHANGED << env, files, error, links_dict, lang_file_binary,
                  lang_file_installed, os_install_exists,
                  flatpak_install_exists, custom_directory_exists, requests,
                  checks, writes >>

\* download_url without the query that asks for the base64 rendering.
download_url_plain(links, code) == repo_url \o links[code]

\* The URL download_lang_file_binary requests.
download_url(links, code) == repo_url \o links[code] \o <<"?format=TEXT">>

\* download_lang_file_binary and base64.b64decode
Download ==
  /\ pc = "download"
  /\ requests' = Append(requests, download_url(links_dict, lang_code))
  /\ \E status_code \in StatusCodes, text \in Bodies :
       IF status_code # 200
         THEN /\ pc' = "aborted"
              /\ error' = "FailedToLoadPayload"
              /\ lang_file_binary' = lang_file_binary
       ELSE IF ~b64decode(text).ok
         THEN /\ pc' = "aborted"
              /\ error' = "binascii.Error"
              /\ lang_file_binary' = lang_file_binary
       ELSE /\ pc' = "resolve"
            /\ error' = error
            /\ lang_file_binary' = b64decode(text).bytes
  /\ UNCHANGED << env, files, links_dict, lang_code, custom_install_directory,
                  lang_file_installed, os_install_exists,
                  flatpak_install_exists, custom_directory_exists, checks,
                  writes, output >>

\* The existence checks.
Resolve ==
  /\ pc = "resolve"
  /\ os_install_exists' = os_path_exists(os_install_dir)
  /\ flatpak_install_exists' = os_path_exists(flatpak_install_dir)
  /\ custom_directory_exists' =
       (Truthy(custom_install_directory)
          /\ os_path_exists(custom_install_directory.str))
  /\ checks' =
       checks
         \o << [path |-> os_install_dir,
                result |-> os_path_exists(os_install_dir)],
               [path |-> flatpak_install_dir,
                result |-> os_path_exists(flatpak_install_dir)] >>
         \o ( IF Truthy(custom_install_directory)
                THEN << [path |-> custom_install_directory.str,
                         result |-> os_path_exists(custom_install_directory.str)] >>
                ELSE <<>> )
  /\ lang_file_installed' = FALSE
  /\ pc' = "install"
  /\ UNCHANGED << env, files, error, links_dict, lang_code,
                  custom_install_directory, lang_file_binary, requests,
                  writes, output >>

\* install_lang_file with the I/O error caught and False returned.
install_lang_file_caught(code, binary, directory_path, result, ret_pc) ==
  LET dictionary_file_path == os_path_join(directory_path, code \o file_ext)
      put(content) ==
        [p \in DOMAIN files \cup {dictionary_file_path} |->
           IF p = dictionary_file_path THEN content ELSE files[p]]
  IN /\ writes' = Append(writes, [dir |-> directory_path,
                                  path |-> dictionary_file_path,
                                  result |-> result])
     /\ files' = CASE result = "ok" -> put(binary)
                   [] result = "write_error" -> put(<<>>)
                   [] OTHER -> files
     /\ output' = IF result = "ok" THEN Append(output, "saved") ELSE output
     /\ lang_file_installed' = (result = "ok")
     /\ pc' = ret_pc
     /\ error' = error

\* install_lang_file, called from main() which continues at ret_pc.
install_lang_file(code, binary, directory_path, result, ret_pc) ==
  LET dictionary_file_path == os_path_join(directory_path, code \o file_ext)
      put(content) ==
        [p \in DOMAIN files \cup {dictionary_file_path} |->
           IF p = dictionary_file_path THEN content ELSE files[p]]
  IN /\ writes' = Append(writes, [dir |-> directory_path,
                                  path |-> dictionary_file_path,
                                  result |-> result])
     /\ files' = CASE result = "ok" -> put(binary)
                   [] result = "write_error" -> put(<<>>)
                   [] OTHER -> files
     /\ IF result = "ok"
          THEN /\ output' = Append(output, "saved")
               /\ lang_file_installed' = TRUE
               /\ pc' = ret_pc
               /\ error' = error
          ELSE /\ output' = output
               /\ lang_file_installed' = lang_file_installed
               /\ pc' = "aborted"
               /\ error' = "OSError"

\* InstallFirst creating the custom directory instead of requiring it.
InstallFirstMakedirs ==
  /\ pc = "install"
  /\ IF Truthy(custom_install_directory)
       THEN /\ existing' = existing \cup {NormDir(custom_install_directory.str)}
            /\ \E result \in WriteResults :
                 install_lang_file(lang_code, lang_file_binary,
                                   custom_install_directory.str, result, "report")
     ELSE /\ existing' = existing
          /\ IF os_install_exists
               THEN \E result \in WriteResults :
                      install_lang_file(lang_code, lang_file_binary,
                                        os_install_dir, result, "install_flatpak")
               ELSE /\ pc' = "install_flatpak"
                    /\ UNCHANGED << files, error, lang_file_installed,
                                    writes, output >>
  /\ UNCHANGED << argv, page, links_dict, lang_code, custom_install_directory,
                  lang_file_binary, os_install_exists, flatpak_install_exists,
                  custom_directory_exists, requests, checks >>

\* The first install of the if/elif: the custom directory, or the native
\* directory.
InstallFirst ==
  /\ pc = "install"
  /\ IF Truthy(custom_install_directory) /\ custom_directory_exists
       THEN \E result \in WriteResults :
              install_lang_file(lang_code, lang_file_binary,
                                custom_install_directory.str, result, "report")
     ELSE IF ~Truthy(custom_install_directory)
       THEN IF os_install_exists
              THEN \E result \in WriteResults :
                     install_lang_file(lang_code, lang_file_binary,
                                       os_install_dir, result, "install_flatpak")
              ELSE /\ pc' = "install_flatpak"
                   /\ UNCHANGED << files, error, lang_file_installed,
                                   writes, output >>
     ELSE /\ pc' = "report"
          /\ UNCHANGED << files, error, lang_file_installed, writes, output >>
  /\ UNCHANGED << env, links_dict, lang_code, custom_install_directory,
                  lang_file_binary, os_install_exists, flatpak_install_exists,
                  custom_directory_exists, requests, checks >>

\* InstallFlatpak as an elif of the native install.
InstallFlatpakElif ==
  /\ pc = "install_flatpak"
  /\ IF flatpak_install_exists /\ ~os_install_exists
       THEN \E result \in WriteResults :
              install_lang_file(lang_code, lang_file_binary,
                                flatpak_install_dir, result, "report")
       ELSE /\ pc' = "report"
            /\ UNCHANGED << files, error, lang_file_installed, writes, output >>
  /\ UNCHANGED << env, links_dict, lang_code, custom_install_directory,
                  lang_file_binary, os_install_exists, flatpak_install_exists,
                  custom_directory_exists, requests, checks >>

\* The second install of the elif branch: the sandboxed directory.
InstallFlatpak ==
  /\ pc = "install_flatpak"
  /\ IF flatpak_install_exists
       THEN \E result \in WriteResults :
              install_lang_file(lang_code, lang_file_binary,
                                flatpak_install_dir, result, "report")
       ELSE /\ pc' = "report"
            /\ UNCHANGED << files, error, lang_file_installed, writes, output >>
  /\ UNCHANGED << env, links_dict, lang_code, custom_install_directory,
                  lang_file_binary, os_install_exists, flatpak_install_exists,
                  custom_directory_exists, requests, checks >>

\* The message main() ends with.
Outcome ==
  IF Truthy(custom_install_directory) /\ ~custom_directory_exists
    THEN "custom_directory_missing"
  ELSE IF ~flatpak_install_exists /\ ~os_install_exists
    THEN "no_configuration_directory"
  ELSE IF ~lang_file_installed
    THEN "install_failed"
  ELSE "restart_chromium"

Report ==
  /\ pc = "report"
  /\ output' = Append(output, Outcome)
  /\ pc' = "done"
  /\ UNCHANGED << env, files, error, locals, requests, checks, writes >>

Next ==
  \/ GetLinks
  \/ CheckArgs
  \/ Download
  \/ Resolve
  \/ InstallFirst
  \/ InstallFlatpak
  \/ Report

Spec == Init /\ [][Next]_vars

\* ------------------------------------------------------------ vocabulary
OutcomeMessages ==
  { "custom_directory_missing", "no_configuration_directory",
    "install_failed", "restart_chromium" }

Terminated == pc \in {"done", "aborted"}

\* The listing page was fetched and parsed.
ListingFetched == pc # "get_links" /\ error # "FailedToLoadListing"

\* A name was passed and is a key of the listing.
Known == ListingFetched /\ Len(argv) >= 2 /\ argv[2] \in DOMAIN links_dict

\* A custom directory argument was passed.
CustomSupplied == Len(argv) >= 3

CustomDirExists == CustomSupplied /\ os_path_exists(expanduser(argv[3]))

ConventionalDirs == { NormDir(os_install_dir), NormDir(flatpak_install_dir) }

AttemptedDirs == { NormDir(writes[i].dir) : i \in DOMAIN writes }

WrittenDirs ==
  { NormDir(writes[i].dir) : i \in {j \in DOMAIN writes : writes[j].result = "ok"} }

\* The run ended normally with outcome message m.
Reported(m) == pc = "done" /\ output # <<>> /\ output[Len(output)] = m

PayloadRequests == { i \in DOMAIN requests : requests[i] # listing_url }

TypeOK ==
  /\ pc \in { "get_links", "args", "download", "resolve", "install",
              "install_flatpak", "report", "done", "aborted" }
  /\ existing \subseteq CandidateDirs
  /\ Len(requests) <= 2
  /\ Len(writes) <= 2

\* ------------------------------------------------------------ claims

\* C1: with a custom directory argument and a known name, the native and
\* sandboxed directories are never written, and a run that ends normally
\* has written exactly the custom directory if it exists and nothing
\* otherwise.
C1_CustomExclusive ==
  (CustomSupplied /\ Known) =>
    /\ AttemptedDirs \cap ConventionalDirs = {}
    /\ pc = "done" =>
         WrittenDirs = IF CustomDirExists
                         THEN {NormDir(expanduser(argv[3]))} ELSE {}

\* C2: "no chromium configuration directory found" is reported only when no
\* custom directory was requested and neither conventional directory
\* exists; a run that installed into an existing custom directory while
\* neither conventional directory exists reports success.
C2_NoConfigDirOnlyWithoutCustom ==
  /\ Reported("no_configuration_directory") =>
       (~CustomSupplied /\ existing \cap ConventionalDirs = {})
  /\ ( /\ pc = "done"
       /\ CustomSupplied /\ Known /\ CustomDirExists
       /\ NormDir(expanduser(argv[3])) \in WrittenDirs
       /\ existing \cap ConventionalDirs = {} )
       => Reported("restart_chromium")

\* C3: when a directory existed at the existence check and the write into
\* it did not complete, the ended run has reported "found directory but
\* install failed".
C3_FailedWriteReported ==
  ( /\ Terminated
    /\ \E i \in DOMAIN writes :
         /\ writes[i].result # "ok"
         /\ \E j \in DOMAIN checks :
              checks[j].path = writes[i].dir /\ checks[j].result )
    => ( output # <<>> /\ output[Len(output)] = "install_failed" )

\* C4: with a custom directory argument naming a directory that does not
\* exist, nothing is written and the run reports "custom directory
\* missing", whatever conventional directories exist.
C4_MissingCustomWritesNothing ==
  (CustomSupplied /\ Known /\ ~CustomDirExists) =>
    /\ writes = <<>>
    /\ files = <<>>
    /\ pc = "done" => Reported("custom_directory_missing")

\* C5: without a custom directory argument and with a known name, writes go
\* only to conventional directories that exist; a run that ends normally
\* has written the file into each of them; and when both exist and both
\* writes completed the outcome is success.
C5_ConventionalInstall ==
  (~CustomSupplied /\ Known) =>
    /\ AttemptedDirs \subseteq (existing \cap ConventionalDirs)
    /\ pc = "done" =>
         /\ WrittenDirs = existing \cap ConventionalDirs
         /\ \A d \in existing \cap ConventionalDirs :
              /\ os_path_join(d, argv[2] \o file_ext) \in DOMAIN files
              /\ files[os_path_join(d, argv[2] \o file_ext)] = lang_file_binary
         /\ DOMAIN files =
              { os_path_join(d, argv[2] \o file_ext) :
                  d \in existing \cap ConventionalDirs }
    /\ ( /\ ConventionalDirs \subseteq existing
         /\ WrittenDirs = ConventionalDirs )
         => ( pc \in {"report", "done"}
              /\ (pc = "done" => Reported("restart_chromium")) )

C5_Witness ==
  /\ ~CustomSupplied /\ Known
  /\ ConventionalDirs \subseteq existing
  /\ WrittenDirs = ConventionalDirs
  /\ Reported("restart_chromium")

\* C6: every file-list anchor whose label ends in ".bdic" has an entry whose
\* key followed by ".bdic" is the label, and every entry comes from such an
\* anchor.
C6_KeyIsLabelWithoutSuffix ==
  ListingFetched =>
    /\ \A i \in DOMAIN page :
         LET label == GetTextStrip(page[i].text) IN
           (ItemClass \in page[i].class_ /\ EndsWith(label, file_ext)) =>
             \E k \in DOMAIN links_dict : k \o file_ext = label
    /\ \A k \in DOMAIN links_dict :
         \E i \in DOMAIN page :
           /\ ItemClass \in page[i].class_
           /\ GetTextStrip(page[i].text) = k \o file_ext

\* The name is absent, or the listing was fetched and the name is not one
\* of its keys.
NoSelection ==
  \/ Len(argv) < 2
  \/ (ListingFetched /\ argv[2] \notin DOMAIN links_dict)

NamesDisplayed ==
  output = IF Len(argv) < 2
             THEN <<"first_argument_hint", "available_names", "example_usage">>
             ELSE <<"unavailable_language", "available_names", "example_usage">>

\* C7 as stated: with the name absent or not a key of the listing, no
\* payload is requested, nothing is written, and the ended run has displayed
\* the names and ended normally.
C7_AsStated ==
  NoSelection =>
    /\ PayloadRequests = {}
    /\ writes = <<>> /\ files = <<>>
    /\ Terminated => (pc = "done" /\ NamesDisplayed)

\* C7 amended: with the name absent or not a key of the listing, no payload
\* is requested and nothing is written; if the listing fetch succeeded the
\* run ends normally at the next step having displayed the names (after the
\* error message for an unknown name); if the listing fetch failed the run
\* is aborted and has displayed nothing.
C7_NoSelectionNoInstall ==
  NoSelection =>
    /\ PayloadRequests = {}
    /\ writes = <<>> /\ files = <<>>
    /\ checks = <<>>
    /\ ListingFetched =>
         /\ pc \in {"args", "done"}
         /\ pc = "done" => NamesDisplayed
    /\ (Terminated /\ ~ListingFetched) => (pc = "aborted" /\ output = <<>>)

C7_Witness ==
  /\ pc = "done"
  /\ Len(argv) >= 2
  /\ argv[2] \notin DOMAIN links_dict
  /\ DOMAIN links_dict # {}
  /\ NamesDisplayed

\* C8: with a known name exactly one payload request is made, second after
\* the listing request and before any existence check or write; its URL is
\* the base URL, the listing value of the name and "?format=TEXT"; the path
\* of no other listing entry is requested.
C8_OnePayloadRequest ==
  /\ \A i \in PayloadRequests :
       /\ i = 2
       /\ requests[1] = listing_url
       /\ Known
       /\ requests[i] = repo_url \o links_dict[argv[2]] \o <<"?format=TEXT">>
  /\ \A i \in DOMAIN requests :
       \A k \in DOMAIN links_dict :
         (Known /\ links_dict[k] # links_dict[argv[2]]) =>
           /\ requests[i] # repo_url \o links_dict[k] \o <<"?format=TEXT">>
           /\ requests[i] # repo_url \o links_dict[k]
  /\ (checks # <<>> \/ writes # <<>>) => Cardinality(PayloadRequests) = 1
  /\ (Known /\ pc \notin {"args", "download"}) =>
       Cardinality(PayloadRequests) = 1

C8_Witness ==
  /\ pc = "done"
  /\ Known
  /\ Cardinality(DOMAIN links_dict) >= 2
  /\ Cardinality(PayloadRequests) = 1
  /\ writes # <<>>

\* Every write so far targets <name>.bdic inside a directory whose
\* existence check answered true, and every file is the target of a write.
WritesIntoCheckedDirs ==
  /\ \A i \in DOMAIN writes :
       /\ writes[i].path = os_path_join(writes[i].dir, argv[2] \o file_ext)
       /\ \E j \in DOMAIN checks :
            checks[j].path = writes[i].dir /\ checks[j].result
       /\ NormDir(writes[i].dir) \in existing
  /\ \A p \in DOMAIN files : \E i \in DOMAIN writes : writes[i].path = p

\* C9: no step of a run changes the set of existing directories, and every
\* write targets <name>.bdic inside a directory whose existence check
\* answered true earlier in the run.
C9_NoDirectoryCreated ==
  /\ []WritesIntoCheckedDirs
  /\ [][existing' = existing]_vars

C9_Witness ==
  /\ pc = "done"
  /\ \E i \in DOMAIN writes : writes[i].result = "ok"
  /\ existing # CandidateDirs

FatalBeforeWrite == {"FailedToLoadListing", "FailedToLoadPayload", "binascii.Error"}

\* C10: an aborted run has printed no outcome message and its files are
\* those the writes before the abort left; a failed listing fetch, payload
\* fetch or base64 decoding aborts with nothing written; when both
\* conventional directories exist and the native write fails the sandboxed
\* write is never attempted; a failed sandboxed write leaves the native
\* file written.
C10_FatalErrorsAbort ==
  /\ error # "none" <=> pc = "aborted"
  /\ pc = "aborted" =>
       /\ \A i \in DOMAIN output : output[i] \notin OutcomeMessages
       /\ \A p \in DOMAIN files :
            \E i \in DOMAIN writes :
              /\ writes[i].path = p
              /\ \/ writes[i].result = "ok" /\ files[p] = lang_file_binary
                 \/ writes[i].result = "write_error" /\ files[p] = <<>>
  /\ error \in FatalBeforeWrite => (writes = <<>> /\ files = <<>>)
  /\ ( /\ writes # <<>>
       /\ NormDir(writes[1].dir) = NormDir(os_install_dir)
       /\ writes[1].result # "ok" )
       => (pc = "aborted" /\ error = "OSError" /\ Len(writes) = 1)
  /\ ( /\ Len(writes) = 2
       /\ writes[2].result # "ok" )
       => /\ pc = "aborted" /\ error = "OSError"
          /\ NormDir(writes[1].dir) = NormDir(os_install_dir)
          /\ NormDir(writes[2].dir) = NormDir(flatpak_install_dir)
          /\ writes[1].path \in DOMAIN files
          /\ files[writes[1].path] = lang_file_binary

C10_Witness ==
  /\ pc = "aborted"
  /\ Len(writes) = 2
  /\ writes[2].result # "ok"
  /\ writes[1].path \in DOMAIN files

====
